---- MODULE Spec2Model ----
(***************************************************************************)
(* The spz loading worker of gauzilla (src/spz.js): the SpzSingleton engine *)
(* lifecycle manager, the async load(url) pipeline (fetch, allocate,       *)
(* copy-in, decode, copy-out, release, postMessage) and the message        *)
(* listener, as a state machine over the worker's single JavaScript        *)
(* thread.  An async function runs to completion between two awaits; the   *)
(* variable running names the request that holds the thread.               *)
(***************************************************************************)
EXTENDS Integers, Sequences, FiniteSets, TLC

\* Number of load commands the main thread sends in a run.
NumReq == 2

Req == 1..NumReq

\* JavaScript null (static instance = null, loadingPromise = null, let pointer = null).
Null == -1

\* The six float vectors of a raw gaussian cloud, in the order the code reads them.
Fields == <<"positions", "scales", "rotations", "alphas", "colors", "sh">>

NumFields == Len(Fields)

\* The object URL of the r-th command: the main thread creates a URL for each
\* command, and URL.createObjectURL never hands out the same URL twice.
UrlOf(r) == r

Urls == {UrlOf(r) : r \in Req}

\* Mutant of Awaits: the decode call is awaited too (await instance.load_spz).
AwaitsWithDecode == {"awaitInit", "awaitFetch", "awaitBody", "decode"}

\* The await expressions of load(): the points where it gives up the thread.
Awaits == {"awaitInit", "awaitFetch", "awaitBody"}

\* Where a request is once load() has returned, thrown or was never called.
Terminal == {"done", "rejected", "ignored"}

\* What instance._malloc can hand back when it does not throw: an address, the
\* C null pointer 0 (how the C allocator reports exhaustion), or the JavaScript
\* null the code tests for.
MallocOutcomes == {"ok", "zero", "null", "throw"}

VARIABLES
    instance,       \* SpzSingleton.instance: Null or the engine handle
    loadingPromise, \* SpzSingleton.loadingPromise: Null or a promise id
    promises,       \* the promises getInstance() returned: [state, value]
    spzwasmCalls,   \* how many times spzwasm() has been invoked
    pc,             \* per request: where its listener/load() call stands
    url,            \* per request: the url of its command
    waitOn,         \* per request: the promise getInstance() returned to it
    inst,           \* per request: load()'s const instance
    pointer,        \* per request: load()'s let pointer
    raw,            \* per request: vf32_ptr of each field of rawGsCloud
    rawInfo,        \* per request: rawGsCloud's scalars and its vectors' sizes
    cloud,          \* per request: gaussianCloud's six typed arrays
    error,          \* per request: what was thrown ("none" when nothing)
    steps,          \* per request: the pipeline calls made, in order
    freed,          \* per request: the pointers passed to instance._free
    failedBefore,   \* per request: the requests that had failed when it arrived
    heap,           \* the engine buffers currently allocated
    outbox,         \* the messages handed to self.postMessage
    objectUrls,     \* the object URLs not yet revoked
    staleReads,     \* the engine addresses read while not allocated
    listening,      \* the 'message' listener is registered
    running         \* the request that holds the thread, 0 when none

vars == <<instance, loadingPromise, promises, spzwasmCalls, pc, url, waitOn,
          inst, pointer, raw, rawInfo, cloud, error, steps, freed,
          failedBefore, heap, staleReads, outbox, objectUrls, listening,
          running>>

singletonVars == <<instance, loadingPromise, promises, spzwasmCalls>>
engineVars == <<heap, freed, staleReads>>
localVars == <<inst, pointer, raw, rawInfo, cloud>>

----------------------------------------------------------------------------
\* The ArrayBuffer of the engine's memory (wasmModule.HEAPF32.buffer).
WasmBuffer == 0

\* The ArrayBuffer buffer.map allocates for the copy of request r's k-th vector.
HostBuffer(r, k) == (r - 1) * NumFields + k

\* Spherical-harmonic coefficients per point and channel for a degree.
ShCoeffCount(d) == (d + 1) * (d + 1) - 1

\* Floats per point of each field.
Stride(k, d) == <<3, 3, 4, 1, 3, 3 * ShCoeffCount(d)>>[k]

\* The sizes of the six vectors of a cloud of np points of degree d.
ExpectedSizes(np, d) == [k \in 1..NumFields |-> np * Stride(k, d)]

\* rawGsCloud before load_spz has returned.
NoCloud == [numPoints |-> 0, shDegree |-> 0, antialiased |-> FALSE, sizes |-> <<>>]

\* What load_spz can hand back: a cloud of two points, and a cloud that says
\* two points and carries the vectors of one.
EngineClouds ==
    {[numPoints |-> 2, shDegree |-> 1, antialiased |-> TRUE,
      sizes |-> ExpectedSizes(2, 1)],
     [numPoints |-> 2, shDegree |-> 1, antialiased |-> TRUE,
      sizes |-> ExpectedSizes(1, 1)]}

\* Engine addresses: one per buffer a request can acquire.
InputAddr(r) == (r - 1) * (NumFields + 1) + 1

OutputAddr(r, k) == InputAddr(r) + k

\* The elements of a sequence.
Range(s) == {s[i] : i \in 1..Len(s)}

\* The engine buffers request r acquired: its input buffer and the output vectors.
Acquired(r) == (IF pointer[r] > 0 THEN {pointer[r]} ELSE {}) \cup Range(raw[r])

\* The messages request r posted.
MessagesOf(r) == {i \in 1..Len(outbox) : outbox[i].from = r}

Init ==
    /\ instance = Null
    /\ loadingPromise = Null
    /\ promises = <<>>
    /\ spzwasmCalls = 0
    /\ pc = [r \in Req |-> "idle"]
    /\ url = [r \in Req |-> Null]
    /\ waitOn = [r \in Req |-> Null]
    /\ inst = [r \in Req |-> Null]
    /\ pointer = [r \in Req |-> Null]
    /\ raw = [r \in Req |-> <<>>]
    /\ rawInfo = [r \in Req |-> NoCloud]
    /\ cloud = [r \in Req |-> <<>>]
    /\ error = [r \in Req |-> "none"]
    /\ steps = [r \in Req |-> <<>>]
    /\ freed = [r \in Req |-> <<>>]
    /\ failedBefore = [r \in Req |-> {}]
    /\ heap = {}
    /\ staleReads = {}
    /\ outbox = <<>>
    /\ objectUrls = Urls
    /\ listening = TRUE
    /\ running = 0

----------------------------------------------------------------------------
\* The thread: a continuation starts only when nothing runs, and runs until the
\* next await or the end of the call.
Scheduled(r) == running = r \/ (running = 0 /\ pc[r] \in Awaits \cup {"idle"})

Yield(r) == running' = IF pc'[r] \in Awaits \cup Terminal THEN 0 ELSE r

\* Requests are numbered in the order their messages arrive.
InOrder(r) == IF r = 1 THEN TRUE ELSE pc[r - 1] # "idle"

\* The requests whose load() ended without a 'loaded' message.
Failed(r) == pc[r] \in {"done", "rejected"} /\ MessagesOf(r) = {}

Loaded(r) == pc[r] = "done" /\ MessagesOf(r) # {}

----------------------------------------------------------------------------
\* Mutant of GetInstance: the test of loadingPromise is missing, so every call
\* made before the engine is ready starts its own initialization.
GetInstanceNoShare(r) ==
    IF instance # Null
    THEN /\ promises' = Append(promises,
                [state |-> "fulfilled", value |-> instance, call |-> 0])
         /\ waitOn' = [waitOn EXCEPT ![r] = Len(promises) + 1]
         /\ UNCHANGED <<instance, loadingPromise, spzwasmCalls>>
    ELSE /\ spzwasmCalls' = spzwasmCalls + 1
         /\ promises' = Append(promises,
                [state |-> "pending", value |-> Null, call |-> spzwasmCalls + 1])
         /\ loadingPromise' = Len(promises) + 1
         /\ waitOn' = [waitOn EXCEPT ![r] = Len(promises) + 1]
         /\ UNCHANGED instance

\* SpzSingleton.getInstance(), called by request r: the promise it returns is
\* recorded in waitOn[r].  The executor of the new promise runs at once, up to
\* its await of spzwasm().
GetInstance(r) ==
    IF instance # Null
    THEN /\ promises' = Append(promises,
                [state |-> "fulfilled", value |-> instance, call |-> 0])
         /\ waitOn' = [waitOn EXCEPT ![r] = Len(promises) + 1]
         /\ UNCHANGED <<instance, loadingPromise, spzwasmCalls>>
    ELSE IF loadingPromise = Null
    THEN /\ spzwasmCalls' = spzwasmCalls + 1
         /\ promises' = Append(promises,
                [state |-> "pending", value |-> Null, call |-> spzwasmCalls + 1])
         /\ loadingPromise' = Len(promises) + 1
         /\ waitOn' = [waitOn EXCEPT ![r] = Len(promises) + 1]
         /\ UNCHANGED instance
    ELSE /\ waitOn' = [waitOn EXCEPT ![r] = loadingPromise]
         /\ UNCHANGED <<instance, loadingPromise, promises, spzwasmCalls>>

\* spzwasm() of promise p resolves: the executor stores the module and resolves.
SpzwasmResolve(p) ==
    /\ running = 0
    /\ promises[p].state = "pending"
    /\ instance' = promises[p].call
    /\ promises' = [promises EXCEPT ![p].state = "fulfilled",
                                    ![p].value = promises[p].call]
    /\ UNCHANGED <<loadingPromise, spzwasmCalls, pc, url, waitOn, localVars,
                   error, steps, failedBefore, engineVars, outbox, objectUrls,
                   listening, running>>

\* Mutant of SpzwasmReject: the executor's catch logs the error and does not
\* call reject, so the promise is never settled.
SpzwasmRejectSilent(p) ==
    /\ running = 0
    /\ promises[p].state = "pending"
    /\ promises' = [promises EXCEPT ![p].state = "abandoned"]
    /\ UNCHANGED <<instance, loadingPromise, spzwasmCalls, pc, url, waitOn,
                   localVars, error, steps, failedBefore, engineVars, outbox,
                   objectUrls, listening, running>>

\* spzwasm() of promise p rejects: the executor logs and rejects the promise.
SpzwasmReject(p) ==
    /\ running = 0
    /\ promises[p].state = "pending"
    /\ promises' = [promises EXCEPT ![p].state = "rejected"]
    /\ UNCHANGED <<instance, loadingPromise, spzwasmCalls, pc, url, waitOn,
                   localVars, error, steps, failedBefore, engineVars, outbox,
                   objectUrls, listening, running>>

\* A statement of load()'s try block throws: control goes to the catch clause.
Raise(r, kind) ==
    /\ error' = [error EXCEPT ![r] = kind]
    /\ pc' = [pc EXCEPT ![r] = "catch"]

\* Mutant of ReceiveLoad: load() calls fetch(url) at once, before it awaits the
\* engine.
ReceiveLoadFetchFirst(r, u) ==
    /\ listening
    /\ pc[r] = "idle"
    /\ InOrder(r)
    /\ Scheduled(r)
    /\ url' = [url EXCEPT ![r] = u]
    /\ steps' = [steps EXCEPT ![r] = Append(@, "fetch")]
    /\ GetInstance(r)
    /\ pc' = [pc EXCEPT ![r] = "awaitInit"]
    /\ failedBefore' = [failedBefore EXCEPT ![r] = {q \in Req : Failed(q)}]
    /\ Yield(r)
    /\ UNCHANGED <<localVars, error, engineVars, outbox, objectUrls, listening>>

\* The listener receives { type: 'load', url: u } as the r-th message and calls
\* load(u), which runs up to its await of SpzSingleton.getInstance().
ReceiveLoad(r, u) ==
    /\ listening
    /\ pc[r] = "idle"
    /\ InOrder(r)
    /\ Scheduled(r)
    /\ url' = [url EXCEPT ![r] = u]
    /\ GetInstance(r)
    /\ pc' = [pc EXCEPT ![r] = "awaitInit"]
    /\ failedBefore' = [failedBefore EXCEPT ![r] = {q \in Req : Failed(q)}]
    /\ Yield(r)
    /\ UNCHANGED <<localVars, error, steps, engineVars, outbox, objectUrls,
                   listening>>

\* The listener receives a message of another type: the switch has no case for it.
ReceiveOther(r) ==
    /\ listening
    /\ pc[r] = "idle"
    /\ InOrder(r)
    /\ Scheduled(r)
    /\ pc' = [pc EXCEPT ![r] = "ignored"]
    /\ Yield(r)
    /\ UNCHANGED <<singletonVars, url, waitOn, localVars, error, steps,
                   failedBefore, engineVars, outbox, objectUrls, listening>>

\* Mutant of InitOk: requests are queued, and a fetch starts only when no other
\* request is past its own.
InitOkSerialized(r) ==
    /\ pc[r] = "awaitInit"
    /\ Scheduled(r)
    /\ \A q \in Req \ {r} : pc[q] \in {"idle", "awaitInit"} \cup Terminal
    /\ promises[waitOn[r]].state = "fulfilled"
    /\ inst' = [inst EXCEPT ![r] = promises[waitOn[r]].value]
    /\ steps' = [steps EXCEPT ![r] = Append(@, "fetch")]
    /\ pc' = [pc EXCEPT ![r] = "awaitFetch"]
    /\ Yield(r)
    /\ UNCHANGED <<singletonVars, url, waitOn, pointer, raw, rawInfo, cloud,
                   error, failedBefore, engineVars, outbox, objectUrls,
                   listening>>

\* The awaited getInstance() promise is fulfilled: load() keeps the handle and
\* calls fetch(url).
InitOk(r) ==
    /\ pc[r] = "awaitInit"
    /\ Scheduled(r)
    /\ promises[waitOn[r]].state = "fulfilled"
    /\ inst' = [inst EXCEPT ![r] = promises[waitOn[r]].value]
    /\ steps' = [steps EXCEPT ![r] = Append(@, "fetch")]
    /\ pc' = [pc EXCEPT ![r] = "awaitFetch"]
    /\ Yield(r)
    /\ UNCHANGED <<singletonVars, url, waitOn, pointer, raw, rawInfo, cloud,
                   error, failedBefore, engineVars, outbox, objectUrls,
                   listening>>

\* The awaited getInstance() promise is rejected: the await is outside the try
\* block, so load() rejects and the listener's await of it throws.
InitFailed(r) ==
    /\ pc[r] = "awaitInit"
    /\ Scheduled(r)
    /\ promises[waitOn[r]].state = "rejected"
    /\ error' = [error EXCEPT ![r] = "init"]
    /\ pc' = [pc EXCEPT ![r] = "rejected"]
    /\ Yield(r)
    /\ UNCHANGED <<singletonVars, url, waitOn, localVars, steps, failedBefore,
                   engineVars, outbox, objectUrls, listening>>

\* fetch(url) resolves with response.ok: the object URL is revoked and the body
\* is read.
FetchOk(r) ==
    /\ pc[r] = "awaitFetch"
    /\ Scheduled(r)
    /\ objectUrls' = objectUrls \ {url[r]}
    /\ pc' = [pc EXCEPT ![r] = "awaitBody"]
    /\ Yield(r)
    /\ UNCHANGED <<singletonVars, url, waitOn, localVars, error, steps,
                   failedBefore, engineVars, outbox, listening>>

\* fetch(url) resolves with a status that is not ok (a 404): load() throws.
FetchNotOk(r) ==
    /\ pc[r] = "awaitFetch"
    /\ Scheduled(r)
    /\ Raise(r, "status")
    /\ Yield(r)
    /\ UNCHANGED <<singletonVars, url, waitOn, localVars, steps, failedBefore,
                   engineVars, outbox, objectUrls, listening>>

\* fetch(url) rejects (a network error).
FetchReject(r) ==
    /\ pc[r] = "awaitFetch"
    /\ Scheduled(r)
    /\ Raise(r, "fetch")
    /\ Yield(r)
    /\ UNCHANGED <<singletonVars, url, waitOn, localVars, steps, failedBefore,
                   engineVars, outbox, objectUrls, listening>>

\* response.arrayBuffer() resolves: spzData is built and the allocation is next.
BodyOk(r) ==
    /\ pc[r] = "awaitBody"
    /\ Scheduled(r)
    /\ pc' = [pc EXCEPT ![r] = "malloc"]
    /\ Yield(r)
    /\ UNCHANGED <<singletonVars, url, waitOn, localVars, error, steps,
                   failedBefore, engineVars, outbox, objectUrls, listening>>

\* response.arrayBuffer() rejects.
BodyReject(r) ==
    /\ pc[r] = "awaitBody"
    /\ Scheduled(r)
    /\ Raise(r, "body")
    /\ Yield(r)
    /\ UNCHANGED <<singletonVars, url, waitOn, localVars, steps, failedBefore,
                   engineVars, outbox, objectUrls, listening>>

----------------------------------------------------------------------------
\* instance._free(p): releases p when it names an allocated buffer; _free(0) is
\* a no-op.
Free(r, ptrs) ==
    /\ heap' = heap \ Range(ptrs)
    /\ freed' = [freed EXCEPT ![r] = @ \o ptrs]

\* pointer = instance._malloc(...), then the test pointer === null.
Malloc(r) ==
    /\ pc[r] = "malloc"
    /\ Scheduled(r)
    /\ steps' = [steps EXCEPT ![r] = Append(@, "allocate")]
    /\ \E outcome \in MallocOutcomes :
          \/ /\ outcome = "ok"
             /\ pointer' = [pointer EXCEPT ![r] = InputAddr(r)]
             /\ heap' = heap \cup {InputAddr(r)}
             /\ pc' = [pc EXCEPT ![r] = "copyin"]
             /\ UNCHANGED error
          \/ /\ outcome = "zero"
             /\ pointer' = [pointer EXCEPT ![r] = 0]
             /\ pc' = [pc EXCEPT ![r] = "copyin"]
             /\ UNCHANGED <<heap, error>>
          \/ /\ outcome = "null"
             /\ pointer' = [pointer EXCEPT ![r] = Null]
             /\ Raise(r, "allocate")
             /\ UNCHANGED heap
          \/ /\ outcome = "throw"
             /\ Raise(r, "allocate")
             /\ UNCHANGED <<heap, pointer>>
    /\ Yield(r)
    /\ UNCHANGED <<singletonVars, url, waitOn, inst, raw, rawInfo, cloud,
                   failedBefore, freed, staleReads, outbox, objectUrls,
                   listening>>

\* instance.HEAPU8.set(spzData, pointer): throws when the bytes do not fit.
CopyIn(r) ==
    /\ pc[r] = "copyin"
    /\ Scheduled(r)
    /\ steps' = [steps EXCEPT ![r] = Append(@, "copyin")]
    /\ \/ /\ pc' = [pc EXCEPT ![r] = "decode"]
          /\ UNCHANGED error
       \/ Raise(r, "copyin")
    /\ Yield(r)
    /\ UNCHANGED <<singletonVars, url, waitOn, localVars, failedBefore,
                   engineVars, outbox, objectUrls, listening>>

\* rawGsCloud = instance.load_spz(pointer, length): the engine reads the input
\* and allocates the six output vectors of the cloud c it decoded, or throws on
\* bytes it cannot decode.  With pointer 0 the engine reads whatever the copy-in
\* left at address 0: either outcome.
Decode(r) ==
    /\ pc[r] = "decode"
    /\ Scheduled(r)
    /\ steps' = [steps EXCEPT ![r] = Append(@, "decode")]
    /\ staleReads' = staleReads \cup
            (IF pointer[r] > 0 THEN {pointer[r]} \ heap ELSE {})
    /\ \/ \E c \in EngineClouds :
             /\ raw' = [raw EXCEPT ![r] = [k \in 1..NumFields |-> OutputAddr(r, k)]]
             /\ rawInfo' = [rawInfo EXCEPT ![r] = c]
             /\ heap' = heap \cup {OutputAddr(r, k) : k \in 1..NumFields}
             /\ pc' = [pc EXCEPT ![r] = "copyout"]
             /\ UNCHANGED error
       \/ /\ Raise(r, "decode")
          /\ UNCHANGED <<raw, rawInfo, heap>>
    /\ Yield(r)
    /\ UNCHANGED <<singletonVars, url, waitOn, inst, pointer, cloud,
                   failedBefore, freed, outbox, objectUrls, listening>>

\* Mutant of FloatVectorToFloatArray: the view is returned, not its copy.
FloatVectorView(r, k) ==
    [field |-> Fields[k], buffer |-> WasmBuffer, byteOffset |-> raw[r][k],
     length |-> rawInfo[r].sizes[k]]

\* floatVectorToFloatArray on the k-th vector of request r's rawGsCloud: a
\* Float32Array view of vec.size() floats at vf32_ptr(vec) in the engine's
\* memory, and buffer.map, which copies it into a typed array with a buffer of
\* its own.
FloatVectorToFloatArray(r, k) ==
    [field |-> Fields[k], buffer |-> HostBuffer(r, k), byteOffset |-> 0,
     length |-> rawInfo[r].sizes[k]]

\* gaussianCloud = createGaussianCloudFromRaw(...): floatVectorToFloatArray
\* reads and copies the fields in order; n is how many are copied before one
\* throws (all of them: none throws).  The const is assigned only when the call
\* returns.
CopyOut(r) ==
    /\ pc[r] = "copyout"
    /\ Scheduled(r)
    /\ steps' = [steps EXCEPT ![r] = Append(@, "copyout")]
    /\ \E n \in 0..NumFields :
          /\ staleReads' = staleReads \cup ({raw[r][k] : k \in 1..n} \ heap)
          /\ IF n = NumFields
             THEN /\ cloud' = [cloud EXCEPT ![r] =
                        [k \in 1..n |-> FloatVectorToFloatArray(r, k)]]
                  /\ pc' = [pc EXCEPT ![r] = "dispose"]
                  /\ UNCHANGED error
             ELSE /\ Raise(r, "copyout")
                  /\ UNCHANGED cloud
    /\ Yield(r)
    /\ UNCHANGED <<singletonVars, url, waitOn, inst, pointer, raw, rawInfo,
                   failedBefore, heap, freed, outbox, objectUrls, listening>>

\* Mutant of Dispose: the call of disposeRawGSCloud is missing.
DisposeSkipped(r) ==
    /\ pc[r] = "dispose"
    /\ Scheduled(r)
    /\ pc' = [pc EXCEPT ![r] = "post"]
    /\ Yield(r)
    /\ UNCHANGED <<singletonVars, url, waitOn, localVars, error, steps,
                   failedBefore, engineVars, outbox, objectUrls, listening>>

\* disposeRawGSCloud: _free of the six vectors' pointers.
Dispose(r) ==
    /\ pc[r] = "dispose"
    /\ Scheduled(r)
    /\ steps' = [steps EXCEPT ![r] = Append(@, "release_out")]
    /\ Free(r, raw[r])
    /\ pc' = [pc EXCEPT ![r] = "post"]
    /\ Yield(r)
    /\ UNCHANGED <<singletonVars, url, waitOn, localVars, error, failedBefore,
                   staleReads, outbox, objectUrls, listening>>

\* Mutant of Message: the transfer list leaves out the last buffer.
MessageShNotTransferred(r) ==
    [status |-> "loaded", from |-> r,
     numPoints |-> rawInfo[r].numPoints,
     shDegree |-> rawInfo[r].shDegree,
     antialiased |-> rawInfo[r].antialiased,
     body |-> [k \in 1..Len(cloud[r]) |->
                 [field |-> cloud[r][k].field, buffer |-> cloud[r][k].buffer,
                  floats |-> cloud[r][k].length]],
     transfer |-> [k \in 1..(Len(cloud[r]) - 1) |-> cloud[r][k].buffer]]

\* The message load() builds: the scalars, the .buffer of each typed array of
\* gaussianCloud, and the transfer list of those buffers.
Message(r) ==
    [status |-> "loaded", from |-> r,
     numPoints |-> rawInfo[r].numPoints,
     shDegree |-> rawInfo[r].shDegree,
     antialiased |-> rawInfo[r].antialiased,
     body |-> [k \in 1..Len(cloud[r]) |->
                 [field |-> cloud[r][k].field, buffer |-> cloud[r][k].buffer,
                  floats |-> cloud[r][k].length]],
     transfer |-> [k \in 1..Len(cloud[r]) |-> cloud[r][k].buffer]]

\* self.postMessage({status: 'loaded', gaussianCloud}, [the six buffers]), or it
\* throws.
Post(r) ==
    /\ pc[r] = "post"
    /\ Scheduled(r)
    /\ steps' = [steps EXCEPT ![r] = Append(@, "transfer")]
    /\ \/ /\ outbox' = Append(outbox, Message(r))
          /\ pc' = [pc EXCEPT ![r] = "finally"]
          /\ UNCHANGED error
       \/ /\ Raise(r, "transfer")
          /\ UNCHANGED outbox
    /\ Yield(r)
    /\ UNCHANGED <<singletonVars, url, waitOn, localVars, failedBefore,
                   engineVars, objectUrls, listening>>

\* Mutant of Catch: the handler also shuts the worker's listener down.
CatchClosesWorker(r) ==
    /\ pc[r] = "catch"
    /\ Scheduled(r)
    /\ steps' = [steps EXCEPT ![r] = Append(@, "catch")]
    /\ pc' = [pc EXCEPT ![r] = "finally"]
    /\ listening' = FALSE
    /\ Yield(r)
    /\ UNCHANGED <<singletonVars, url, waitOn, localVars, error, failedBefore,
                   engineVars, outbox, objectUrls>>

\* catch (e) { console.error(e) }
Catch(r) ==
    /\ pc[r] = "catch"
    /\ Scheduled(r)
    /\ steps' = [steps EXCEPT ![r] = Append(@, "catch")]
    /\ pc' = [pc EXCEPT ![r] = "finally"]
    /\ Yield(r)
    /\ UNCHANGED <<singletonVars, url, waitOn, localVars, error, failedBefore,
                   engineVars, outbox, objectUrls, listening>>

\* Mutant of Finally: the finally clause also disposes of the raw cloud.
FinallyDisposesAgain(r) ==
    /\ pc[r] = "finally"
    /\ Scheduled(r)
    /\ IF pointer[r] # Null
       THEN /\ Free(r, <<pointer[r]>> \o raw[r])
            /\ steps' = [steps EXCEPT ![r] = Append(@, "release_in")]
       ELSE UNCHANGED <<heap, freed, steps>>
    /\ pc' = [pc EXCEPT ![r] = "done"]
    /\ Yield(r)
    /\ UNCHANGED <<singletonVars, url, waitOn, localVars, error, failedBefore,
                   staleReads, outbox, objectUrls, listening>>

\* Mutant of Finally: the test pointer !== null is missing.
FinallyAlwaysFrees(r) ==
    /\ pc[r] = "finally"
    /\ Scheduled(r)
    /\ Free(r, <<pointer[r]>>)
    /\ steps' = [steps EXCEPT ![r] = Append(@, "release_in")]
    /\ pc' = [pc EXCEPT ![r] = "done"]
    /\ Yield(r)
    /\ UNCHANGED <<singletonVars, url, waitOn, localVars, error, failedBefore,
                   staleReads, outbox, objectUrls, listening>>

\* Mutant of Finally: the finally clause does not free the input buffer.
FinallyNoFree(r) ==
    /\ pc[r] = "finally"
    /\ Scheduled(r)
    /\ pc' = [pc EXCEPT ![r] = "done"]
    /\ Yield(r)
    /\ UNCHANGED <<singletonVars, url, waitOn, localVars, error, steps,
                   failedBefore, engineVars, outbox, objectUrls, listening>>

\* finally { if (pointer !== null) instance._free(pointer) }; load() returns.
Finally(r) ==
    /\ pc[r] = "finally"
    /\ Scheduled(r)
    /\ IF pointer[r] # Null
       THEN /\ Free(r, <<pointer[r]>>)
            /\ steps' = [steps EXCEPT ![r] = Append(@, "release_in")]
       ELSE UNCHANGED <<heap, freed, steps>>
    /\ pc' = [pc EXCEPT ![r] = "done"]
    /\ Yield(r)
    /\ UNCHANGED <<singletonVars, url, waitOn, localVars, error, failedBefore,
                   staleReads, outbox, objectUrls, listening>>

----------------------------------------------------------------------------
Next ==
    \/ \E r \in Req : ReceiveLoad(r, UrlOf(r))
    \/ \E r \in Req : ReceiveOther(r)
    \/ \E p \in 1..Len(promises) : SpzwasmResolve(p)
    \/ \E p \in 1..Len(promises) : SpzwasmReject(p)
    \/ \E r \in Req : InitOk(r)
    \/ \E r \in Req : InitFailed(r)
    \/ \E r \in Req : FetchOk(r)
    \/ \E r \in Req : FetchNotOk(r)
    \/ \E r \in Req : FetchReject(r)
    \/ \E r \in Req : BodyOk(r)
    \/ \E r \in Req : BodyReject(r)
    \/ \E r \in Req : Malloc(r)
    \/ \E r \in Req : CopyIn(r)
    \/ \E r \in Req : Decode(r)
    \/ \E r \in Req : CopyOut(r)
    \/ \E r \in Req : Dispose(r)
    \/ \E r \in Req : Post(r)
    \/ \E r \in Req : Catch(r)
    \/ \E r \in Req : Finally(r)

Spec == Init /\ [][Next]_vars

----------------------------------------------------------------------------
\* The steps the worker takes on its own once a command has arrived: the
\* settling of spzwasm(), fetch and arrayBuffer, and the continuations of load().
Progress ==
    \/ \E p \in 1..Len(promises) : SpzwasmResolve(p) \/ SpzwasmReject(p)
    \/ \E r \in Req :
          \/ InitOk(r) \/ InitFailed(r)
          \/ FetchOk(r) \/ FetchNotOk(r) \/ FetchReject(r)
          \/ BodyOk(r) \/ BodyReject(r)
          \/ Malloc(r) \/ CopyIn(r) \/ Decode(r) \/ CopyOut(r)
          \/ Dispose(r) \/ Post(r) \/ Catch(r) \/ Finally(r)

\* The worker when initialization and every fetch eventually settle and the
\* event loop runs every continuation that is ready.
FairSpec == Spec /\ WF_vars(Progress)

----------------------------------------------------------------------------
\* The claims.

\* A request through which every step went well: nothing was thrown and the
\* allocation handed back a buffer.
Succeeded(r) == pc[r] = "done" /\ error[r] = "none" /\ pointer[r] > 0

\* The promises that stand for an engine initialization (not Promise.resolve).
IsLoading(p) == promises[p].call > 0

\* C1: spzwasm() is invoked at most once; all callers of getInstance() that
\* arrive before the engine is ready wait on the same promise; every caller
\* that gets a handle gets the singleton's handle.
C1_InitOnce ==
    /\ spzwasmCalls <= 1
    /\ \A r1, r2 \in Req :
          (/\ waitOn[r1] # Null /\ waitOn[r2] # Null
           /\ IsLoading(waitOn[r1]) /\ IsLoading(waitOn[r2]))
          => waitOn[r1] = waitOn[r2]
    /\ \A r \in Req : inst[r] # Null => inst[r] = instance

\* Two callers shared one initialization and both got the handle.
C1_Witness ==
    \E r1, r2 \in Req :
        /\ r1 # r2
        /\ waitOn[r1] # Null
        /\ waitOn[r1] = waitOn[r2]
        /\ IsLoading(waitOn[r1])
        /\ inst[r1] # Null
        /\ inst[r2] # Null

\* C2: a getInstance() call made after initialization has failed starts a new
\* initialization attempt.
C2_RetryAfterFailure ==
    [][\A r \in Req :
          (/\ pc[r] = "idle"
           /\ pc'[r] = "awaitInit"
           /\ instance = Null
           /\ loadingPromise # Null
           /\ promises[loadingPromise].state = "rejected")
          => spzwasmCalls' = spzwasmCalls + 1]_vars

\* C3: when a request has ended, whatever step failed, every engine buffer it
\* acquired has been released.
C3_AllBuffersReleased ==
    \A r \in Req : pc[r] \in Terminal => Acquired(r) \cap heap = {}

\* C4: when load_spz throws, no 'loaded' message is posted for the request, and
\* once the request has ended its input buffer has been freed and none of its
\* engine buffers is allocated.
C4_DecodeFailureReleasesInput ==
    \A r \in Req :
        error[r] = "decode" =>
            /\ MessagesOf(r) = {}
            /\ pc[r] = "done" =>
                  /\ Acquired(r) \cap heap = {}
                  /\ pointer[r] > 0 => pointer[r] \in Range(freed[r])

\* A request whose decode threw on an allocated input buffer has ended.
C4_Witness ==
    \E r \in Req : error[r] = "decode" /\ pc[r] = "done" /\ pointer[r] > 0

\* C5: when a load request has ended, on any outcome, its object URL has been
\* revoked.
C5_UrlAlwaysRevoked ==
    \A r \in Req : pc[r] \in {"done", "rejected"} => url[r] \notin objectUrls

InEngineSection(r) == "allocate" \in Range(steps[r]) /\ pc[r] \notin Terminal

\* C7: at most one request at a time is between its allocation and its last
\* release.
C7_EngineSectionExclusive ==
    Cardinality({r \in Req : InEngineSection(r)}) <= 1

\* One request is in its engine section while another is in flight, suspended
\* at an await.
C7_Witness ==
    \E r1, r2 \in Req :
        /\ InEngineSection(r1)
        /\ pc[r1] = "decode"
        /\ pc[r2] \in {"awaitFetch", "awaitBody"}

\* The errors thrown inside load()'s try block.
TryErrors == {"status", "fetch", "body", "allocate", "copyin", "decode",
              "copyout", "transfer"}

\* C8: a request that failed in fetching (a status that is not ok), decoding
\* or transferring ends failed (load() returned, the error logged, no message),
\* the listener stays registered, and the next load command is accepted as soon
\* as the thread is free.
C8_FailureKeepsListening ==
    \A r \in Req :
        (error[r] \in TryErrors /\ pc[r] \notin {"catch", "finally"}) =>
            /\ pc[r] = "done"
            /\ MessagesOf(r) = {}
            /\ "catch" \in Range(steps[r])
            /\ listening
            /\ running # r
            /\ \A q \in Req :
                  (pc[q] = "idle" /\ InOrder(q) /\ running = 0)
                  => ENABLED ReceiveLoad(q, UrlOf(q))

\* A command received after a request failed on a status that is not ok was
\* loaded.
C8_Witness ==
    \E r1, r2 \in Req :
        /\ error[r1] = "status"
        /\ r1 \in failedBefore[r2]
        /\ Loaded(r2)
        /\ error[r2] = "none"

\* The allocation call of request r was made and handed back no buffer.
AllocFailed(r) == "allocate" \in Range(steps[r]) /\ pointer[r] <= 0

\* C9: when the allocation fails, the request fails with an allocation error
\* before copy-in and decode, and _free is not called for it.
C9_AllocationFailureStops ==
    \A r \in Req :
        AllocFailed(r) =>
            /\ "copyin" \notin Range(steps[r])
            /\ "decode" \notin Range(steps[r])
            /\ freed[r] = <<>>
            /\ pc[r] = "done" => error[r] = "allocate"

\* C10: a load command produces at most one message: exactly one when every
\* step succeeded, none when a step failed.
C10_OneMessageIffSuccess ==
    \A r \in Req :
        /\ Cardinality(MessagesOf(r)) <= 1
        /\ pc[r] \in {"done", "rejected"} =>
              (Cardinality(MessagesOf(r)) = 1 <=> Succeeded(r))

\* C11: the six vectors are all copied into arrays with buffers of their own
\* before any output vector is released, no engine address is read while it is
\* not allocated, and the buffers of a message are never the engine's memory.
C11_CopyBeforeRelease ==
    /\ staleReads = {}
    /\ \A r \in Req :
          Range(raw[r]) \ heap # {} =>
              /\ Len(cloud[r]) = NumFields
              /\ \A k \in 1..NumFields : cloud[r][k].buffer # WasmBuffer
    /\ \A i \in 1..Len(outbox) :
          /\ Len(outbox[i].body) = NumFields
          /\ \A k \in 1..NumFields : outbox[i].body[k].buffer # WasmBuffer

\* A request released its output vectors and posted its message.
C11_Witness ==
    \E r \in Req :
        /\ MessagesOf(r) # {}
        /\ raw[r] # <<>>
        /\ Range(raw[r]) \cap heap = {}

\* C12: no engine buffer is passed to _free twice, by its request or another,
\* and a request frees only buffers it acquired.
C12_NoDoubleFree ==
    /\ \A r \in Req :
          /\ \A i, j \in 1..Len(freed[r]) :
                (i < j /\ freed[r][i] > 0) => freed[r][i] # freed[r][j]
          /\ \A i \in 1..Len(freed[r]) :
                freed[r][i] > 0 => freed[r][i] \in Acquired(r)
    /\ \A r, q \in Req :
          r # q => {a \in Range(freed[r]) : a > 0} \cap Range(freed[q]) = {}

\* One request freed its six output vectors and its input buffer, another freed
\* its input buffer on a failure path.
C12_Witness ==
    \E r, q \in Req :
        /\ Len(freed[r]) = NumFields + 1
        /\ pc[r] = "done"
        /\ pointer[r] > 0
        /\ pc[q] = "done"
        /\ error[q] # "none"
        /\ freed[q] = <<pointer[q]>>
        /\ pointer[q] > 0

\* C13: every 'loaded' message carries arrays of numPoints x stride floats
\* (3, 3, 4, 1, 3 and 3 x shCoeffCount(shDegree)); a cloud whose vectors do not
\* match its numPoints makes the request fail and is never posted.
C13_MessageSizesMatch ==
    \A i \in 1..Len(outbox) :
        \A k \in 1..Len(outbox[i].body) :
            outbox[i].body[k].floats =
                ExpectedSizes(outbox[i].numPoints, outbox[i].shDegree)[k]

\* Everything that belongs to request q alone: its locals, its log, its
\* messages and those of its engine buffers that are still allocated.
RequestState(q) ==
    <<pc[q], url[q], waitOn[q], inst[q], pointer[q], raw[q], rawInfo[q],
      cloud[q], error[q], steps[q], freed[q],
      [i \in MessagesOf(q) |-> outbox[i]], Acquired(q) \cap heap>>

\* Whenever the thread is free, the next step of request q can be taken,
\* whatever the other requests are doing: a command is accepted, a request whose
\* engine is ready starts its fetch, a fetch or a body read can complete.
NeverWaitsForOthers ==
    \A q \in Req :
        running = 0 =>
            /\ (pc[q] = "idle" /\ InOrder(q)) => ENABLED ReceiveLoad(q, UrlOf(q))
            /\ (pc[q] = "awaitInit" /\ promises[waitOn[q]].state = "fulfilled")
                  => ENABLED InitOk(q)
            /\ pc[q] = "awaitFetch" => (ENABLED FetchOk(q) /\ ENABLED FetchNotOk(q))
            /\ pc[q] = "awaitBody" => (ENABLED BodyOk(q) /\ ENABLED BodyReject(q))

\* A step of one request, failing or not, leaves every other request as it was.
StepsTouchOneRequest ==
    \A r \in Req :
        pc'[r] # pc[r] =>
            \A q \in Req \ {r} : RequestState(q)' = RequestState(q)

\* C14: concurrent load commands are independent: a request starts its fetch
\* without waiting for a request that is still fetching, and a step (a failure
\* included) of one request changes nothing of another.
C14_RequestsIndependent ==
    []NeverWaitsForOthers /\ [][StepsTouchOneRequest]_vars

\* One request failed while another, received before that failure, is still
\* fetching.
C14_Witness ==
    \E r1, r2 \in Req :
        /\ pc[r1] = "done"
        /\ error[r1] \in TryErrors
        /\ pc[r2] = "awaitFetch"
        /\ r1 \notin failedBefore[r2]

\* C15: when initialization and the fetch eventually settle, every load command
\* that was received reaches a terminal state: from some point on no request is
\* in flight (a request never goes back to idle or leaves a terminal state).
C15_EveryLoadTerminates ==
    <>[](\A r \in Req : pc[r] # "idle" => pc[r] \in Terminal)

\* Every command has ended, one loaded and one failed.
C15_Witness ==
    /\ \A r \in Req : pc[r] \in Terminal
    /\ \E r, q \in Req : Loaded(r) /\ pc[q] = "done" /\ error[q] \in TryErrors

\* C16: a request fetches, allocates and posts only after the engine handle is
\* ready and in its hands, and a request whose initialization failed does none
\* of them.
C16_FetchAfterInit ==
    \A r \in Req :
        /\ (steps[r] # <<>> \/ Acquired(r) # {} \/ MessagesOf(r) # {}) =>
              /\ instance # Null
              /\ inst[r] = instance
              /\ promises[waitOn[r]].state = "fulfilled"
        /\ (pc[r] = "awaitInit" \/ error[r] = "init") =>
              /\ steps[r] = <<>>
              /\ Acquired(r) = {}
              /\ freed[r] = <<>>
              /\ MessagesOf(r) = {}

\* A request that had to wait for the initialization has issued its fetch.
C16_Witness ==
    \E r \in Req :
        /\ steps[r] # <<>>
        /\ waitOn[r] # Null
        /\ IsLoading(waitOn[r])

\* C17: in every 'loaded' message the transfer list is exactly the six buffers
\* of the body, one per field, and the six are pairwise distinct.
C17_TransferListIsBody ==
    \A i \in 1..Len(outbox) :
        /\ Len(outbox[i].body) = NumFields
        /\ [k \in 1..NumFields |-> outbox[i].body[k].field] = Fields
        /\ Len(outbox[i].transfer) = NumFields
        /\ Range(outbox[i].transfer) =
              {outbox[i].body[k].buffer : k \in 1..NumFields}
        /\ Cardinality(Range(outbox[i].transfer)) = NumFields

\* Two messages were posted, by two requests.
C17_Witness ==
    /\ Len(outbox) >= 2
    /\ outbox[1].from # outbox[2].from

\* The errors of a request that failed before its allocation: fetch rejected,
\* or the response status was not ok.
PreAllocErrors == {"fetch", "status"}

\* A request that failed before its allocation has made no allocate call and
\* no free call, and holds no engine buffer.
NoEngineCallBeforeAlloc ==
    \A r \in Req :
        error[r] \in PreAllocErrors =>
            /\ "allocate" \notin Range(steps[r])
            /\ freed[r] = <<>>
            /\ pointer[r] = Null
            /\ Acquired(r) = {}

\* The steps of a request that failed before its allocation leave the set of
\* allocated buffers as it was.
FailureLeavesHeap ==
    \A r \in Req :
        (error'[r] \in PreAllocErrors /\ pc'[r] # pc[r]) => heap' = heap

\* C18: a request that fails before allocation calls neither allocate nor free
\* and leaves the engine's allocated buffers unchanged.
C18_PreAllocFailureTouchesNoEngine ==
    []NoEngineCallBeforeAlloc /\ [][FailureLeavesHeap]_vars

\* A request failed on a status that is not ok while buffers of another request
\* are allocated.
C18_Witness ==
    \E r \in Req :
        /\ pc[r] = "done"
        /\ error[r] = "status"
        /\ heap # {}

====
